---- MODULE Spec2Model ----
(***************************************************************************)
(* typed-redis: the record lifecycle of RedisModel (typed_redis/redis.py). *)
(* A model class carries a class-level store handle `_redis`; an instance  *)
(* carries its field values and the private flag `_deleted`.  The store    *)
(* operations create / update / delete / get / __call__ are modelled as    *)
(* the code runs them, each as one step (one store round trip at most).    *)
(***************************************************************************)
EXTENDS Integers, Sequences, FiniteSets, TLC

\* ------------------------------------------------------------------ bounds
\* Number of live record instances the callers hold at once.
MaxInst == 2
\* Identity values range over 1..MaxId.
MaxId == 2

\* At most MaxFlight calls are suspended at their store round trip at once.
MaxFlight == 2

\* Expiry times given to create(ex=...) range over 1..ExSeconds.
ExSeconds == 2

Ids == 1..MaxId
\* Text values a caller gives to the `name: str` field.
Names == {"x", "y"}

\* ------------------------------------------------------ python-level values
\* A Python value is tagged with its runtime type.
PyInt(i) == [t |-> "int", i |-> i, s |-> ""]
PyStr(s) == [t |-> "str", i |-> 0, s |-> s]
PyBool(b) == [t |-> "bool", i |-> (IF b THEN 1 ELSE 0), s |-> ""]

\* The values callers pass for `name`: valid text, or the bool True of the tests.
NameInputs == {PyStr(n) : n \in Names} \cup {PyBool(TRUE)}
IdInputs == {PyInt(i) : i \in Ids}

\* The store handles of the tests (FakeAsyncRedis instances) and Python's None.
Handles == {"r1", "r2"}
None == "None"

\* ------------------------------------------------------------- class table
\* The model classes the tests declare: the handle given to Store(...) (None
\* when the class does not inherit from a Store base), the model_name, and the
\* fields annotated as primary key.
ClassDef ==
  [ A        |-> [store |-> "r1", model_name |-> "a",       pk |-> {"id"}],
    B        |-> [store |-> "r2", model_name |-> "b",       pk |-> {"id"}],
    Unbound  |-> [store |-> None, model_name |-> "unbound", pk |-> {"id"}],
    NoPk     |-> [store |-> "r1", model_name |-> "nopk",    pk |-> {}],
    MultiPk  |-> [store |-> "r1", model_name |-> "mpk",     pk |-> {"id", "name"}] ]

Classes == DOMAIN ClassDef

\* The class statements run in program order.
ClassOrder == <<"Unbound", "NoPk", "MultiPk", "A", "B">>

\* RedisModel._redis: the class attribute before any binding.
RedisModelRedis == None

\* Store(handle): the base type the binder returns carries `_redis = handle`;
\* a class that inherits no Store base resolves `_redis` on RedisModel.
Store(handle) == handle

\* ------------------------------------------------------------ serialization
Digit == <<"0", "1", "2", "3", "4", "5", "6", "7", "8", "9">>

\* str(i) for i >= 0, as the sequence of its decimal digits.
RECURSIVE IntToStr(_)
IntToStr(i) ==
  IF i < 10 THEN <<Digit[i + 1]>>
  ELSE IntToStr(i \div 10) \o <<Digit[(i % 10) + 1]>>

\* int(text) for a sequence of decimal digits.
DigitVal(d) == (CHOOSE k \in 1..10 : Digit[k] = d) - 1
IsDigits(ds) == Len(ds) > 0 /\ \A k \in 1..Len(ds) : \E j \in 1..10 : Digit[j] = ds[k]
RECURSIVE StrToInt(_)
StrToInt(ds) ==
  IF Len(ds) = 1 THEN DigitVal(ds[1])
  ELSE 10 * StrToInt(SubSeq(ds, 1, Len(ds) - 1)) + DigitVal(ds[Len(ds)])

\* One JSON scalar as a token: <<kind>> followed by its text.
JsonScalar(v) ==
  CASE v.t = "int"  -> <<"num">> \o IntToStr(v.i)
    [] v.t = "str"  -> <<"str", v.s>>
    [] v.t = "bool" -> <<"lit", IF v.i = 1 THEN "true" ELSE "false">>

\* model_dump_json(): the complete field set, in declaration order.  A value
\* of the wrong type is dumped as it is (pydantic only warns).
model_dump_json(fields) ==
  << <<"{">>, <<"str", "id">>, <<":">>, JsonScalar(fields.id), <<",">>,
     <<"str", "name">>, <<":">>, JsonScalar(fields.name), <<"}">> >>

\* Schema validation of one field value: id: int, name: str.
ValidId(tok) == tok[1] = "num" /\ IsDigits(Tail(tok))
ValidName(tok) == tok[1] = "str" /\ Len(tok) = 2

\* The reply of the store to GET: Python None, or the stored text as str or,
\* for a handle opened with decode_responses=False, as utf-8 bytes.
decode_responses == [r1 |-> TRUE, r2 |-> FALSE]
PyNone == [kind |-> "None", data |-> <<>>]
PyText(text) == [kind |-> "str", data |-> text]
Encode(text) == [kind |-> "bytes", data |-> text]
\* Variant that takes str(data), the text "b'...'", instead of decoding.
Decode_repr(reply) == [kind |-> "str", data |-> << <<"b'">> >> \o reply.data \o << <<"'">> >>]

\* data.decode("utf-8")
Decode(reply) == [kind |-> "str", data |-> reply.data]

\* model_validate_json(data): parse the JSON text and validate it against the
\* schema; anything that is not text, not the object shape or holds a value of
\* the wrong type raises ValidationError.
model_validate_json(reply) ==
  LET d == reply.data
      shape == /\ reply.kind \in {"str", "bytes"}
               /\ Len(d) = 9
               /\ d[1] = <<"{">> /\ d[2] = <<"str", "id">> /\ d[3] = <<":">>
               /\ d[5] = <<",">> /\ d[6] = <<"str", "name">> /\ d[7] = <<":">>
               /\ d[9] = <<"}">>
  IN IF shape /\ ValidId(d[4]) /\ ValidName(d[8])
     THEN [err |-> "ok",
           fields |-> [id |-> PyInt(StrToInt(Tail(d[4]))), name |-> PyStr(d[8][2])]]
     ELSE [err |-> "ValidationError", fields |-> <<>>]

\* Validation of constructor arguments (the same schema, on Python values).
ValidFields(fields) == fields.id.t = "int" /\ fields.name.t = "str"

\* ------------------------------------------------------------------ errors
NoErr == "ok"
ErrDeleted == "RuntimeError: model has been deleted"
ErrUnbound == "RuntimeError: no Redis client bound"
ErrNoPk == "ValueError: no primary key field"
ErrMultiPk == "ValueError: multiple primary key fields"
ErrValidation == "ValidationError"
ErrNoField == "ValueError: object has no field"
ErrTransport == "ConnectionError"

\* ------------------------------------------------------------------- state
VARIABLES
  redis,   \* defined class -> the handle its `_redis` resolves to (or None)
  objs,    \* the record instances, in order of creation: [cls, fields, deleted]
  db,      \* handle -> (key -> stored value): the contents of each store
  last,    \* the last call: operation, target, argument, error raised,
           \* store commands it issued, value it returned
  ttl,     \* handle -> (key -> seconds to live), for the keys set to expire
  pending  \* the calls suspended at their store round trip

vars == <<redis, objs, db, last, ttl, pending>>

\* str(v) of a Python value, as text pieces.
Str(v) ==
  CASE v.t = "int"  -> IntToStr(v.i)
    [] v.t = "str"  -> <<v.s>>
    [] v.t = "bool" -> <<IF v.i = 1 THEN "True" ELSE "False">>

\* "<model-name>:<identity-value>"
build_redis_key(cls, primary_key) == <<ClassDef[cls].model_name, ":">> \o Str(primary_key)

\* The instance key: exactly one field must be annotated as the primary key.
redis_key(o) ==
  LET pk == ClassDef[o.cls].pk
  IN IF pk = {} THEN [err |-> ErrNoPk, key |-> <<>>]
     ELSE IF Cardinality(pk) > 1 THEN [err |-> ErrMultiPk, key |-> <<>>]
     ELSE [err |-> NoErr,
           key |-> build_redis_key(o.cls, o.fields[CHOOSE f \in pk : TRUE])]

\* Variant keeping the deleted flag once for the whole class.
assert_not_deleted_classwide(o) ==
  IF \E j \in 1..Len(objs) : objs[j].cls = o.cls /\ objs[j].deleted
  THEN ErrDeleted ELSE NoErr

\* Variants without the guard.
assert_not_deleted_unguarded(o) == NoErr
assert_redis_client_unguarded(cls) == NoErr

\* _assert_not_deleted / _assert_redis_client, as the error they raise.
assert_not_deleted(o) == IF o.deleted THEN ErrDeleted ELSE NoErr
assert_redis_client(cls) == IF redis[cls] = None THEN ErrUnbound ELSE NoErr

\* Variant reading one module-wide handle instead of the class's own.
client_shared(o) ==
  IF o.deleted THEN [err |-> ErrDeleted, client |-> None]
  ELSE IF redis[o.cls] = None THEN [err |-> ErrUnbound, client |-> None]
  ELSE [err |-> NoErr, client |-> "r1"]

\* The _client property: the deleted guard, then the binding guard, then the
\* class-level handle.
client(o) ==
  IF assert_not_deleted(o) # NoErr THEN [err |-> assert_not_deleted(o), client |-> None]
  ELSE IF assert_redis_client(o.cls) # NoErr
       THEN [err |-> assert_redis_client(o.cls), client |-> None]
  ELSE [err |-> NoErr, client |-> redis[o.cls]]

\* ------------------------------------------------------------ store commands
\* Write options: nx (only set if absent); the default is no option.
DefaultKw == [nx |-> FALSE, ex |-> 0]
Kwargs == {DefaultKw, [nx |-> TRUE, ex |-> 0]}

Has(h, key) == h \in Handles /\ key \in DOMAIN db[h]

\* The store's effect of one command on its contents.
RedisExec(store, c) ==
  CASE c.cmd = "SET" ->
         IF c.kw.nx /\ c.key \in DOMAIN store THEN store
         ELSE [k \in DOMAIN store \cup {c.key} |-> IF k = c.key THEN c.val ELSE store[k]]
    [] c.cmd = "DELETE" -> [k \in DOMAIN store \ {c.key} |-> store[k]]
    [] c.cmd = "GET" -> store

\* The contents of every store after the commands of one call.
Issue(cmds) ==
  [h \in Handles |->
     IF cmds # <<>> /\ cmds[1].h = h THEN RedisExec(db[h], cmds[1]) ELSE db[h]]

\* The expiry the store keeps for its keys after one command: SET with ex
\* starts the key's time to live, any other effective SET clears it, DELETE
\* removes it.
RedisExpire(store, live, c) ==
  CASE c.cmd = "SET" ->
         IF c.kw.nx /\ c.key \in DOMAIN store THEN live
         ELSE IF c.kw.ex > 0
              THEN [k \in DOMAIN live \cup {c.key} |-> IF k = c.key THEN c.kw.ex ELSE live[k]]
              ELSE [k \in DOMAIN live \ {c.key} |-> live[k]]
    [] c.cmd = "DELETE" -> [k \in DOMAIN live \ {c.key} |-> live[k]]
    [] c.cmd = "GET" -> live

Expiry(cmds) ==
  [h \in Handles |->
     IF cmds # <<>> /\ cmds[1].h = h THEN RedisExpire(db[h], ttl[h], cmds[1]) ELSE ttl[h]]

\* The reply to GET key.
RedisGet(h, key) ==
  IF ~Has(h, key) THEN PyNone
  ELSE IF decode_responses[h] THEN PyText(db[h][key]) ELSE Encode(db[h][key])

\* Variant that numbers the key with the count of keys the store holds.
store_to_redis_numbered(o, kw) ==
  LET cl == client(o)
      k == redis_key(o)
  IN IF cl.err # NoErr THEN [err |-> cl.err, cmds |-> <<>>]
     ELSE IF k.err # NoErr THEN [err |-> k.err, cmds |-> <<>>]
     ELSE [err |-> NoErr,
           cmds |-> <<[h |-> cl.client, cmd |-> "SET",
                       key |-> k.key \o IntToStr(Cardinality(DOMAIN db[cl.client])),
                       val |-> model_dump_json(o.fields), kw |-> kw]>>]

\* Variant that writes whatever the key computation returned.
store_to_redis_anykey(o, kw) ==
  LET cl == client(o)
  IN IF cl.err # NoErr THEN [err |-> cl.err, cmds |-> <<>>]
     ELSE [err |-> NoErr,
           cmds |-> <<[h |-> cl.client, cmd |-> "SET", key |-> redis_key(o).key,
                       val |-> model_dump_json(o.fields), kw |-> kw]>>]

\* Variant that writes under the model name alone.
store_to_redis_classkey(o, kw) ==
  LET cl == client(o)
      k == redis_key(o)
  IN IF cl.err # NoErr THEN [err |-> cl.err, cmds |-> <<>>]
     ELSE IF k.err # NoErr THEN [err |-> k.err, cmds |-> <<>>]
     ELSE [err |-> NoErr,
           cmds |-> <<[h |-> cl.client, cmd |-> "SET",
                       key |-> <<ClassDef[o.cls].model_name>>,
                       val |-> model_dump_json(o.fields), kw |-> kw]>>]

\* Variant that issues the SET without the caller's options.
store_to_redis_nokw(o, kw) ==
  LET cl == client(o)
      k == redis_key(o)
  IN IF cl.err # NoErr THEN [err |-> cl.err, cmds |-> <<>>]
     ELSE IF k.err # NoErr THEN [err |-> k.err, cmds |-> <<>>]
     ELSE [err |-> NoErr,
           cmds |-> <<[h |-> cl.client, cmd |-> "SET", key |-> k.key,
                       val |-> model_dump_json(o.fields), kw |-> DefaultKw]>>]

\* _store_to_redis: serialize, take the client (guards), compute the key, SET.
store_to_redis(o, kw) ==
  LET data == model_dump_json(o.fields)
      cl == client(o)
      k == redis_key(o)
  IN IF cl.err # NoErr THEN [err |-> cl.err, cmds |-> <<>>]
     ELSE IF k.err # NoErr THEN [err |-> k.err, cmds |-> <<>>]
     ELSE [err |-> NoErr,
           cmds |-> <<[h |-> cl.client, cmd |-> "SET", key |-> k.key,
                       val |-> data, kw |-> kw]>>]

\* ----------------------------------------------------------------- actions
Call(op, cls, inst, arg, err, cmds, ret) ==
  [op |-> op, cls |-> cls, inst |-> inst, arg |-> arg, err |-> err,
   cmds |-> cmds, ret |-> ret]

Init ==
  /\ redis = <<>>
  /\ objs = <<>>
  /\ db = [h \in Handles |-> <<>>]
  /\ last = Call("init", "", 0, <<>>, NoErr, <<>>, <<>>)
  /\ ttl = [h \in Handles |-> <<>>]
  /\ pending = <<>>

\* class c(Store(handle), RedisModel, model_name=...): the class statement.
DefineClass(c) ==
  /\ Cardinality(DOMAIN redis) < Len(ClassOrder)
  /\ c = ClassOrder[Cardinality(DOMAIN redis) + 1]
  /\ redis' = [k \in DOMAIN redis \cup {c} |->
                 IF k # c THEN redis[k]
                 ELSE IF ClassDef[c].store = None THEN RedisModelRedis
                 ELSE Store(ClassDef[c].store)]
  /\ last' = Call("class", c, 0, <<>>, NoErr, <<>>, <<>>)
  /\ UNCHANGED <<objs, db, ttl, pending>>

\* cls(id=..., name=...): construction validates the fields; _deleted = False.
Construct(c, id, name) ==
  LET fields == [id |-> id, name |-> name]
  IN /\ c \in DOMAIN redis
     /\ Len(objs) < MaxInst
     /\ IF ValidFields(fields)
        THEN /\ objs' = Append(objs, [cls |-> c, fields |-> fields, deleted |-> FALSE])
             /\ last' = Call("new", c, Len(objs) + 1, <<fields>>, NoErr, <<>>, <<>>)
        ELSE /\ objs' = objs
             /\ last' = Call("new", c, 0, <<fields>>, ErrValidation, <<>>, <<>>)
     /\ UNCHANGED <<redis, db, ttl, pending>>

\* await obj.create(**kwargs)
Create(i, kw) ==
  LET r == store_to_redis(objs[i], kw)
  IN /\ i \in 1..Len(objs)
     /\ db' = Issue(r.cmds)
     /\ last' = Call("create", objs[i].cls, i, <<kw>>, r.err, r.cmds, <<>>)
     /\ ttl' = Expiry(r.cmds)
     /\ UNCHANGED <<redis, objs, pending>>

\* Variant that drops the changes.
SetAttrs_dropped(fields, changes) == fields

\* setattr(self, key, value) for every change.  RedisModel sets no
\* validate_assignment, so the assignment stores the value as given.
SetAttrs(fields, changes) ==
  [f \in DOMAIN fields |-> IF f \in DOMAIN changes THEN changes[f] ELSE fields[f]]

\* The mappings callers pass to update(**changes): they name no identity
\* field (the identity of a record is not changed after creation).
Changes ==
  UNION {[S -> NameInputs] : S \in SUBSET {"name"}}

\* await obj.update(**changes)
Update(i, changes) ==
  /\ i \in 1..Len(objs)
  /\ LET o == [objs[i] EXCEPT !.fields = SetAttrs(@, changes)]
         r == store_to_redis(o, DefaultKw)
     IN /\ objs' = [objs EXCEPT ![i] = o]
        /\ db' = Issue(r.cmds)
        /\ ttl' = Expiry(r.cmds)
        /\ last' = Call("update", o.cls, i, <<changes>>, r.err, r.cmds, <<>>)
  /\ UNCHANGED <<redis, pending>>

\* Variant that marks the instance deleted before the deletion is known to
\* have succeeded.
Delete_flagfirst(i) ==
  /\ i \in 1..Len(objs)
  /\ LET o == objs[i]
         cl == client(o)
         k == redis_key(o)
         err == IF cl.err # NoErr THEN cl.err ELSE k.err
         cmds == IF err # NoErr THEN <<>>
                 ELSE <<[h |-> cl.client, cmd |-> "DELETE", key |-> k.key,
                         val |-> <<>>, kw |-> DefaultKw]>>
     IN /\ db' = Issue(cmds)
        /\ objs' = [objs EXCEPT ![i].deleted = TRUE]
        /\ ttl' = Expiry(cmds)
        /\ last' = Call("delete", o.cls, i, <<>>, err, cmds, <<>>)
  /\ UNCHANGED <<redis, pending>>

\* await obj.delete()
Delete(i) ==
  /\ i \in 1..Len(objs)
  /\ LET o == objs[i]
         cl == client(o)
         k == redis_key(o)
         err == IF cl.err # NoErr THEN cl.err ELSE k.err
         cmds == IF err # NoErr THEN <<>>
                 ELSE <<[h |-> cl.client, cmd |-> "DELETE", key |-> k.key,
                         val |-> <<>>, kw |-> DefaultKw]>>
     IN /\ db' = Issue(cmds)
        /\ objs' = IF err = NoErr THEN [objs EXCEPT ![i].deleted = TRUE] ELSE objs
        /\ ttl' = Expiry(cmds)
        /\ last' = Call("delete", o.cls, i, <<>>, err, cmds, <<>>)
  /\ UNCHANGED <<redis, pending>>

\* The keys callers pass to get: an identity value (sent to the store as its
\* text) or the full key of a record of the class.
GetArgs(c) ==
  {Str(v) : v \in IdInputs} \cup {build_redis_key(c, v) : v \in IdInputs}

\* await cls.get(key)
Get(c, key) ==
  /\ c \in DOMAIN redis
  /\ IF assert_redis_client(c) # NoErr
     THEN /\ last' = Call("get", c, 0, <<key>>, assert_redis_client(c), <<>>, <<>>)
          /\ objs' = objs
     ELSE LET h == redis[c]
              cmds == <<[h |-> h, cmd |-> "GET", key |-> key, val |-> <<>>,
                         kw |-> DefaultKw]>>
              reply == RedisGet(h, key)
              data == IF reply.kind = "bytes" THEN Decode(reply) ELSE reply
              m == model_validate_json(data)
          IN IF m.err # NoErr
             THEN /\ last' = Call("get", c, 0, <<key>>, m.err, cmds, <<>>)
                  /\ objs' = objs
             ELSE LET o == [cls |-> c, fields |-> m.fields, deleted |-> FALSE]
                  IN /\ objs' = IF Len(objs) < MaxInst THEN Append(objs, o) ELSE objs
                     /\ last' = Call("get", c, IF Len(objs) < MaxInst THEN Len(objs) + 1 ELSE 0,
                                     <<key>>, NoErr, cmds, <<o>>)
  /\ UNCHANGED <<redis, db, ttl, pending>>

\* Variant that writes without looking at the deleted flag.
Invoke_unguarded(i) ==
  LET r == store_to_redis([objs[i] EXCEPT !.deleted = FALSE], DefaultKw)
  IN /\ i \in 1..Len(objs)
     /\ db' = Issue(r.cmds)
     /\ last' = Call("call", objs[i].cls, i, <<>>, r.err, r.cmds, <<>>)
     /\ ttl' = Expiry(r.cmds)
     /\ UNCHANGED <<redis, objs, pending>>

\* await obj(): __call__ awaits create() with no options.
Invoke(i) ==
  LET r == store_to_redis(objs[i], DefaultKw)
  IN /\ i \in 1..Len(objs)
     /\ db' = Issue(r.cmds)
     /\ last' = Call("call", objs[i].cls, i, <<>>, r.err, r.cmds, <<>>)
     /\ ttl' = Expiry(r.cmds)
     /\ UNCHANGED <<redis, objs, pending>>

\* obj.redis_key: reading the key property.
KeyAccess(i) ==
  /\ i \in 1..Len(objs)
  /\ LET k == redis_key(objs[i])
     IN last' = Call("key", objs[i].cls, i, <<>>, k.err, <<>>, <<k.key>>)
  /\ UNCHANGED <<redis, objs, db, ttl, pending>>

Next ==
  \/ \E c \in Classes : DefineClass(c)
  \/ \E c \in Classes, id \in IdInputs, name \in NameInputs : Construct(c, id, name)
  \/ \E i \in 1..MaxInst, kw \in Kwargs : Create(i, kw)
  \/ \E i \in 1..MaxInst, ch \in Changes : Update(i, ch)
  \/ \E i \in 1..MaxInst : Delete(i)
  \/ \E c \in Classes : \E key \in GetArgs(c) : Get(c, key)
  \/ \E i \in 1..MaxInst : Invoke(i)
  \/ \E i \in 1..MaxInst : KeyAccess(i)

Spec == Init /\ [][Next]_vars

\* ------------------------------------------------- write options and expiry
\* The options callers give to create(): nx, and ex in seconds (0: not given).
KwargsAll == {[nx |-> b, ex |-> e] : b \in BOOLEAN, e \in 0..ExSeconds}

\* The option keywords of RedisKwargs, as a caller may pass them to update().
OptionNames == {"ex", "px", "nx"}
Options ==
  {<<>>} \cup {[n \in {name} |-> IF name = "nx" THEN PyBool(TRUE) ELSE PyInt(1)] :
               name \in OptionNames}

\* The field changes given together with options: a new valid name, or none.
NameChanges == {<<>>} \cup {[f \in {"name"} |-> PyStr(n)] : n \in Names}

\* Variant in which a keyword that names no field is skipped.
AssignErr_ignoring(fields, names) == NoErr

\* setattr(self, key, value) with a key that names no field of the model
\* raises ValueError (pydantic rejects unknown attributes).
AssignErr(fields, names) == IF names \subseteq DOMAIN fields THEN NoErr ELSE ErrNoField

\* await obj.update(**changes, **options): update() has the single keyword
\* mapping `changes`, so option keywords arrive in it like field names.  The
\* keywords are assigned in the order given; the first that names no field
\* raises, before _store_to_redis() is reached.
UpdateWith(i, changes, options, fieldsFirst) ==
  /\ i \in 1..Len(objs)
  /\ (changes = <<>> \/ options = <<>>) => fieldsFirst
  /\ LET applied == IF fieldsFirst \/ options = <<>> THEN changes ELSE <<>>
         o == [objs[i] EXCEPT !.fields = SetAttrs(@, applied)]
         e == AssignErr(o.fields, DOMAIN changes \cup DOMAIN options)
         r == IF e # NoErr THEN [err |-> e, cmds |-> <<>>]
              ELSE store_to_redis(o, DefaultKw)
     IN /\ objs' = [objs EXCEPT ![i] = o]
        /\ db' = Issue(r.cmds)
        /\ ttl' = Expiry(r.cmds)
        /\ last' = Call("update", o.cls, i, <<changes, options>>, r.err, r.cmds, <<>>)
  /\ UNCHANGED <<redis, pending>>

\* One second passes at the store: every time to live drops by one and a key
\* whose time is up is removed.
Tick ==
  /\ \E h \in Handles : ttl[h] # <<>>
  /\ ttl' = [h \in Handles |->
               [k \in {x \in DOMAIN ttl[h] : ttl[h][x] > 1} |-> ttl[h][k] - 1]]
  /\ db' = [h \in Handles |->
              [k \in {x \in DOMAIN db[h] : x \in DOMAIN ttl[h] => ttl[h][x] > 1} |-> db[h][k]]]
  /\ last' = Call("tick", "", 0, <<>>, NoErr, <<>>, <<>>)
  /\ UNCHANGED <<redis, objs, pending>>

NextOpts ==
  \/ \E c \in Classes : DefineClass(c)
  \/ \E name \in Names : Construct("A", PyInt(1), PyStr(name))
  \/ \E i \in 1..MaxInst, kw \in KwargsAll : Create(i, kw)
  \/ \E i \in 1..MaxInst, ch \in NameChanges, opt \in Options, ff \in BOOLEAN :
        UpdateWith(i, ch, opt, ff)
  \/ \E i \in 1..MaxInst : Delete(i)
  \/ Tick

SpecOpts == Init /\ [][NextOpts]_vars

\* ------------------------------------------------------------------ claims
InstOps == {"create", "update", "delete"}
Insts == 1..Len(objs)

\* C1: once delete() has completed on an instance, every later create(),
\* update() or delete() on it raises the deleted-instance error and issues no
\* store command, and the deleted flag stays true.
C1_DeletedRejectsAll ==
  [][\A i \in Insts : objs[i].deleted =>
       /\ objs'[i].deleted
       /\ (last'.inst = i /\ last'.op \in InstOps) =>
            (last'.err = ErrDeleted /\ last'.cmds = <<>> /\ db' = db)]_vars

C1_Witness ==
  /\ last.op = "create" /\ last.inst \in Insts
  /\ objs[last.inst].deleted
  /\ last.err = ErrDeleted

\* C2: create() followed by the class-level get called with the identity
\* value returns a record whose fields equal those of the created record.
C2_CreateThenGetById ==
  [][(/\ last.op = "create" /\ last.err = NoErr /\ last.arg = <<DefaultKw>>
      /\ ValidFields(objs[last.inst].fields)
      /\ last'.op = "get" /\ last'.cls = last.cls
      /\ last'.arg = <<Str(objs[last.inst].fields.id)>>)
     => (/\ last'.err = NoErr
         /\ last'.ret # <<>>
         /\ last'.ret[1].fields = objs[last.inst].fields)]_vars

\* C3: on a bound class, get for an identity value whose key holds no value
\* returns None and raises no error.
C3_GetAbsentReturnsNone ==
  \A v \in IdInputs :
    (/\ last.op = "get" /\ last.arg = <<Str(v)>>
     /\ redis[last.cls] # None
     /\ ~Has(redis[last.cls], build_redis_key(last.cls, v)))
    => (last.err = NoErr /\ last.ret = <<>>)

\* C4: on a class with no bound handle, create, update, delete, the callable
\* shorthand and the class-level get raise the unbound-client error and issue
\* no store command.
C4_UnboundFails ==
  (/\ last.op \in {"create", "update", "delete", "call", "get"}
   /\ redis[last.cls] = None)
  => (last.err = ErrUnbound /\ last.cmds = <<>>)

C4_Witness ==
  /\ last.op = "get" /\ redis[last.cls] = None
  /\ last.err = ErrUnbound
  /\ \E i \in Insts : redis[objs[i].cls] = None

\* A value that violates the schema of the field it is given to.
Invalid(changes) == \E f \in DOMAIN changes : changes[f].t # "str"

\* C5: update() with a value that violates the schema, on an Active bound
\* record with a persisted value, raises a validation error, issues no store
\* write and leaves the stored value as it was.
C5_InvalidUpdateRejected ==
  [][(/\ last'.op = "update"
      /\ ~objs[last'.inst].deleted
      /\ redis[last'.cls] # None
      /\ redis_key(objs[last'.inst]).err = NoErr
      /\ Has(redis[last'.cls], redis_key(objs[last'.inst]).key)
      /\ Invalid(last'.arg[1]))
     => (last'.err = ErrValidation /\ last'.cmds = <<>> /\ db' = db)]_vars

\* C6: after update() with valid values completes, the instance holds the new
\* values and the value stored under its key is the serialization of its
\* complete current field set, the value create() would write.
C6_UpdatePersists ==
  (last.op = "update" /\ last.err = NoErr /\ ~Invalid(last.arg[1]))
  => LET o == objs[last.inst]
         h == redis[o.cls]
         k == <<ClassDef[o.cls].model_name, ":">> \o IntToStr(o.fields.id.i)
     IN /\ \A f \in DOMAIN last.arg[1] : o.fields[f] = last.arg[1][f]
        /\ Has(h, k)
        /\ db[h][k] = model_dump_json(o.fields)
        /\ store_to_redis(o, DefaultKw).cmds = last.cmds

C6_Witness ==
  /\ last.op = "update" /\ last.err = NoErr
  /\ "name" \in DOMAIN last.arg[1]
  /\ last.arg[1]["name"] = PyStr("y")
  /\ \E i \in Insts : i # last.inst /\ objs[i].fields.name = PyStr("x")

\* C7: with unchanged fields and default write options, a second consecutive
\* create() leaves every store as the first create() left it.
C7_CreateIdempotent ==
  [][(/\ last.op = "create" /\ last.err = NoErr /\ last.arg = <<DefaultKw>>
      /\ last'.op = "create" /\ last'.inst = last.inst
      /\ last'.arg = <<DefaultKw>>)
     => db' = db]_vars

C7_Witness ==
  /\ last.op = "create" /\ last.err = NoErr /\ last.arg = <<DefaultKw>>
  /\ LET o == objs[last.inst]
     IN /\ DOMAIN db[redis[o.cls]] = {redis_key(o).key}
        /\ db[redis[o.cls]][redis_key(o).key] = model_dump_json(o.fields)

\* C8: classes bound to different handles have different handles, a later
\* class statement leaves the handle of every earlier class unchanged, and
\* every store command of an operation goes to the handle its class was bound
\* with and leaves every other store as it was.
C8_HandlesDistinct ==
  /\ ("A" \in DOMAIN redis /\ "B" \in DOMAIN redis) => redis["A"] # redis["B"]
  /\ \A k \in 1..Len(last.cmds) : last.cmds[k].h = ClassDef[last.cls].store

C8_HandlesKept ==
  /\ \A c \in DOMAIN redis : c \in DOMAIN redis' /\ redis'[c] = redis[c]
  /\ \A h \in Handles : h # ClassDef[last'.cls].store => db'[h] = db[h]

C8_BindingIsolated == []C8_HandlesDistinct /\ [][C8_HandlesKept]_vars

C8_Witness ==
  /\ "B" \in DOMAIN redis
  /\ last.cls = "A" /\ last.op = "update" /\ last.cmds # <<>>
  /\ db["r2"] # <<>>

\* The classes whose declaration marks zero or several identity fields.
BadPk == {c \in Classes : Cardinality(ClassDef[c].pk) # 1}
PkErr(c) == IF ClassDef[c].pk = {} THEN ErrNoPk ELSE ErrMultiPk

\* C9 (as claimed): a class with zero or several identity fields constructs
\* instances, and create, get and key access on it raise the
\* identity-field-configuration error and issue no store command.
C9_AsClaimed ==
  last.cls \in BadPk =>
    /\ (last.op = "new" /\ ValidFields(last.arg[1])) => last.err = NoErr
    /\ last.op \in {"create", "get", "key"} =>
         (last.err = PkErr(last.cls) /\ last.cmds = <<>>)

\* C9 (amended): such a class constructs instances; key access, and on a bound
\* class create, update, delete and the callable shorthand, raise the
\* identity-field-configuration error and issue no store command; the
\* class-level get never consults the identity fields and raises no such error.
C9_BadPkFailsOnInstanceKey ==
  last.cls \in BadPk =>
    /\ (last.op = "new" /\ ValidFields(last.arg[1])) => last.err = NoErr
    /\ (\/ last.op = "key"
        \/ last.op \in {"create", "update", "delete", "call"} /\ redis[last.cls] # None)
       => (last.err = PkErr(last.cls) /\ last.cmds = <<>>)
    /\ last.op = "get" => last.err \notin {ErrNoPk, ErrMultiPk}

C9_Witness ==
  /\ last.cls = "MultiPk" /\ last.op = "create"
  /\ last.err = ErrMultiPk
  /\ \E i \in Insts : objs[i].cls = "NoPk"

\* C10: the key of a record is "<model-name>:<identity-value>", and create()
\* writes the serialization of the record under that key and changes no other
\* key of any store.
C10_KeyFormat ==
  (last.op = "key" /\ last.err = NoErr) =>
    LET k == last.ret[1]
        o == objs[last.inst]
    IN /\ Len(k) >= 3
       /\ k[1] = ClassDef[o.cls].model_name
       /\ k[2] = ":"
       /\ IsDigits(SubSeq(k, 3, Len(k)))
       /\ StrToInt(SubSeq(k, 3, Len(k))) = o.fields.id.i

C10_CreateWritesOwnKey ==
  (last'.op = "create" /\ last'.err = NoErr) =>
    LET o == objs[last'.inst]
        h == redis[o.cls]
        k == <<ClassDef[o.cls].model_name, ":">> \o IntToStr(o.fields.id.i)
    IN /\ ~(last'.arg[1].nx /\ Has(h, k)) =>
            (k \in DOMAIN db'[h] /\ db'[h][k] = model_dump_json(o.fields))
       /\ \A h2 \in Handles : \A k2 \in DOMAIN db[h2] \cup DOMAIN db'[h2] :
            <<h2, k2>> # <<h, k>> =>
              (k2 \in DOMAIN db[h2] /\ k2 \in DOMAIN db'[h2] /\ db'[h2][k2] = db[h2][k2])

C10_KeyAndWrite == []C10_KeyFormat /\ [][C10_CreateWritesOwnKey]_vars

C10_Witness ==
  /\ last.op = "create" /\ last.err = NoErr
  /\ Cardinality(DOMAIN db[redis[last.cls]]) >= 2
  /\ last.cmds[1].key = <<"a", ":", "2">>

OnTransportError(cmds) == cmds

\* The deletion self._client.delete(self.redis_key) sends, or the error raised
\* before it.
delete_from_redis(o) ==
  LET cl == client(o)
      k == redis_key(o)
  IN IF cl.err # NoErr THEN [err |-> cl.err, cmds |-> <<>>]
     ELSE IF k.err # NoErr THEN [err |-> k.err, cmds |-> <<>>]
     ELSE [err |-> NoErr,
           cmds |-> <<[h |-> cl.client, cmd |-> "DELETE", key |-> k.key,
                       val |-> <<>>, kw |-> DefaultKw]>>]

\* A store command whose await raises a transport error.  The command may or
\* may not have taken effect at the store when the connection fails (applied);
\* the statements after the await do not run.
Fails(op, i, o, arg, r, applied) ==
  /\ r.err = NoErr
  /\ objs' = [objs EXCEPT ![i] = o]
  /\ db' = IF applied THEN Issue(r.cmds) ELSE db
  /\ ttl' = IF applied THEN Expiry(r.cmds) ELSE ttl
  /\ last' = Call(op, o.cls, i, arg, ErrTransport, OnTransportError(r.cmds), <<>>)
  /\ UNCHANGED <<redis, pending>>

CreateFails(i, kw, applied) ==
  /\ i \in 1..Len(objs)
  /\ Fails("create", i, objs[i], <<kw>>, store_to_redis(objs[i], kw), applied)

UpdateFails(i, changes, applied) ==
  /\ i \in 1..Len(objs)
  /\ LET o == [objs[i] EXCEPT !.fields = SetAttrs(@, changes)]
     IN Fails("update", i, o, <<changes>>, store_to_redis(o, DefaultKw), applied)

\* delete(): the error leaves `self._deleted = True` unexecuted.
DeleteFails(i, applied) ==
  /\ i \in 1..Len(objs)
  /\ Fails("delete", i, objs[i], <<>>, delete_from_redis(objs[i]), applied)

InvokeFails(i, applied) ==
  /\ i \in 1..Len(objs)
  /\ Fails("call", i, objs[i], <<>>, store_to_redis(objs[i], DefaultKw), applied)

GetFails(c, key) ==
  /\ c \in DOMAIN redis
  /\ assert_redis_client(c) = NoErr
  /\ last' = Call("get", c, 0, <<key>>, ErrTransport,
                  OnTransportError(<<[h |-> redis[c], cmd |-> "GET", key |-> key,
                                      val |-> <<>>, kw |-> DefaultKw]>>), <<>>)
  /\ UNCHANGED <<redis, objs, db, ttl, pending>>

NextNet ==
  \/ \E c \in Classes : DefineClass(c)
  \/ \E c \in Classes : Construct(c, PyInt(1), PyStr("x"))
  \/ \E i \in 1..MaxInst : Create(i, DefaultKw)
  \/ \E i \in 1..MaxInst, ch \in Changes : Update(i, ch)
  \/ \E i \in 1..MaxInst : Delete(i)
  \/ \E c \in Classes : \E key \in {Str(PyInt(1)), build_redis_key(c, PyInt(1))} : Get(c, key)
  \/ \E i \in 1..MaxInst : Invoke(i)
  \/ \E i \in 1..MaxInst, applied \in BOOLEAN : CreateFails(i, DefaultKw, applied)
  \/ \E i \in 1..MaxInst, ch \in Changes, applied \in BOOLEAN : UpdateFails(i, ch, applied)
  \/ \E i \in 1..MaxInst, applied \in BOOLEAN : DeleteFails(i, applied)
  \/ \E i \in 1..MaxInst, applied \in BOOLEAN : InvokeFails(i, applied)
  \/ \E c \in Classes : \E key \in {Str(PyInt(1)), build_redis_key(c, PyInt(1))} : GetFails(c, key)

SpecNet == Init /\ [][NextNet]_vars

\* ------------------------------------------------------ calls in flight
\* A coroutine runs without interruption up to its awaited store call, is
\* suspended while the store handles the command, and resumes with the
\* reply.  pending holds the suspended calls: the command sent, whether the
\* store has executed it, and (for stating properties) whether another call
\* of the same instance was in flight at any time during it.
InFlightIn(calls, i) == {p \in 1..Len(calls) : calls[p].inst = i}
InFlight(i) == InFlightIn(pending, i)

Suspend(i, op, arg, cmds) ==
  Append([p \in 1..Len(pending) |->
            IF pending[p].inst = i THEN [pending[p] EXCEPT !.overlap = TRUE]
            ELSE pending[p]],
         [inst |-> i, op |-> op, arg |-> arg, cmds |-> cmds, served |-> FALSE,
          overlap |-> InFlight(i) # {}])

\* The part of a call that runs before its await: the guards and the
\* arguments of the store call are evaluated, then the call is suspended; an
\* error raised there ends the call.
Start(op, i, o, arg, r) ==
  /\ objs' = [objs EXCEPT ![i] = o]
  /\ IF r.err # NoErr
     THEN /\ pending' = pending
          /\ last' = Call(op, o.cls, i, arg, r.err, <<>>, <<>>)
     ELSE /\ Len(pending) < MaxFlight
          /\ pending' = Suspend(i, op, arg, r.cmds)
          /\ last' = Call("await", o.cls, i, <<op>>, NoErr, r.cmds, <<>>)
  /\ UNCHANGED <<redis, db, ttl>>

StartCreate(i) ==
  /\ i \in 1..Len(objs)
  /\ Start("create", i, objs[i], <<DefaultKw>>, store_to_redis(objs[i], DefaultKw))

StartUpdate(i, changes) ==
  /\ i \in 1..Len(objs)
  /\ LET o == [objs[i] EXCEPT !.fields = SetAttrs(@, changes)]
     IN Start("update", i, o, <<changes>>, store_to_redis(o, DefaultKw))

StartDelete(i) ==
  /\ i \in 1..Len(objs)
  /\ Start("delete", i, objs[i], <<>>, delete_from_redis(objs[i]))

\* The store executes the command of a suspended call.
Serve(p) ==
  /\ p \in 1..Len(pending)
  /\ ~pending[p].served
  /\ db' = Issue(pending[p].cmds)
  /\ ttl' = Expiry(pending[p].cmds)
  /\ pending' = [pending EXCEPT ![p].served = TRUE]
  /\ UNCHANGED <<redis, objs, last>>

\* Variant in which a call resumes without the store having executed its
\* command.
Resume_early(p) ==
  /\ p \in 1..Len(pending)
  /\ LET e == pending[p]
     IN /\ objs' = IF e.op = "delete" THEN [objs EXCEPT ![e.inst].deleted = TRUE] ELSE objs
        /\ last' = Call(e.op, objs[e.inst].cls, e.inst, e.arg, NoErr, e.cmds, <<>>)
  /\ pending' = [q \in 1..(Len(pending) - 1) |-> IF q < p THEN pending[q] ELSE pending[q + 1]]
  /\ UNCHANGED <<redis, db, ttl>>

\* The reply arrives and the call runs to its end: delete() sets
\* self._deleted = True, create() and update() return.
Resume(p) ==
  /\ p \in 1..Len(pending)
  /\ pending[p].served
  /\ LET e == pending[p]
     IN /\ objs' = IF e.op = "delete" THEN [objs EXCEPT ![e.inst].deleted = TRUE] ELSE objs
        /\ last' = Call(e.op, objs[e.inst].cls, e.inst, e.arg, NoErr, e.cmds, <<>>)
  /\ pending' = [q \in 1..(Len(pending) - 1) |-> IF q < p THEN pending[q] ELSE pending[q + 1]]
  /\ UNCHANGED <<redis, db, ttl>>

NextAsync ==
  \/ \E c \in Classes : DefineClass(c)
  \/ \E id \in IdInputs : Construct("A", id, PyStr("x"))
  \/ \E i \in 1..MaxInst : StartCreate(i)
  \/ \E i \in 1..MaxInst, n \in Names : StartUpdate(i, [f \in {"name"} |-> PyStr(n)])
  \/ \E i \in 1..MaxInst : StartDelete(i)
  \/ \E p \in 1..MaxFlight : Serve(p)
  \/ \E p \in 1..MaxFlight : Resume(p)

SpecAsync == Init /\ [][NextAsync]_vars

\* C12: create() forwards the caller's options unchanged to its single SET:
\* after create(ex=n) the key's time to live t has 0 < t <= n, and it only
\* shrinks while the key lives; create(nx=True) on a key that holds a value
\* leaves the stored value unchanged.
C12_CreateStep ==
  (last'.op = "create" /\ last'.err = NoErr) =>
    LET o == objs[last'.inst]
        h == redis[o.cls]
        k == redis_key(o).key
        kw == last'.arg[1]
        blocked == kw.nx /\ Has(h, k)
    IN /\ Len(last'.cmds) = 1
       /\ last'.cmds[1].cmd = "SET" /\ last'.cmds[1].kw = kw
       /\ (kw.ex > 0 /\ ~blocked) =>
            (k \in DOMAIN ttl'[h] /\ 0 < ttl'[h][k] /\ ttl'[h][k] <= kw.ex)
       /\ blocked => (k \in DOMAIN db'[h] /\ db'[h][k] = db[h][k])

C12_TickStep ==
  last'.op = "tick" =>
    \A h \in Handles : \A k \in DOMAIN ttl'[h] :
      k \in DOMAIN ttl[h] /\ 0 < ttl'[h][k] /\ ttl'[h][k] < ttl[h][k]

C12_TtlPositive ==
  \A h \in Handles : \A k \in DOMAIN ttl[h] :
    k \in DOMAIN db[h] /\ 0 < ttl[h][k] /\ ttl[h][k] <= ExSeconds

C12_OptionsForwarded ==
  []C12_TtlPositive /\ [][C12_CreateStep /\ C12_TickStep]_vars

C12_Witness ==
  /\ last.op = "create" /\ last.err = NoErr
  /\ last.arg[1].nx /\ last.arg[1].ex = 0
  /\ db["r1"][last.cmds[1].key] # last.cmds[1].val
  /\ last.cmds[1].key \in DOMAIN ttl["r1"] /\ ttl["r1"][last.cmds[1].key] = 1

\* C13: calling a record is create() with default options in every state: the
\* call and the create have the same error, issue the same command and leave
\* the same store; on a deleted record both fail with the deleted-instance
\* error, on an unbound class with the unbound-client error.
C13_SameAsCreate(op) ==
  LET i == last'.inst
      o == objs[i]
      r == store_to_redis(o, DefaultKw)
  IN (last'.op = op /\ (op = "create" => last'.arg[1] = DefaultKw)) =>
       /\ last'.err = r.err /\ last'.cmds = r.cmds
       /\ db' = Issue(r.cmds) /\ objs' = objs /\ redis' = redis
       /\ o.deleted => (last'.err = ErrDeleted /\ db' = db)
       /\ (~o.deleted /\ redis[o.cls] = None) => (last'.err = ErrUnbound /\ db' = db)
       /\ (~o.deleted /\ o.cls \in {"A", "B"}) =>
            (last'.err = NoErr /\ redis_key(o).key \in DOMAIN db'[redis[o.cls]]
             /\ db'[redis[o.cls]][redis_key(o).key] = model_dump_json(o.fields))

C13_InvokeIsCreate == [][C13_SameAsCreate("call") /\ C13_SameAsCreate("create")]_vars

C13_Witness ==
  /\ last.op = "call" /\ last.err = NoErr
  /\ db[last.cmds[1].h][last.cmds[1].key] = last.cmds[1].val
  /\ \E j \in 1..Len(objs) : objs[j].deleted

\* C16: get is uncached and read-only: after any completed creates, updates
\* and deletes on a bound class, get(v) returns the record last written under
\* the key of v, or the absent result when that key holds no value.
C16_GetReturnsLastWritten ==
  \A v \in IdInputs :
    (/\ last.op = "get" /\ last.arg = <<Str(v)>>
     /\ last.cls \in {"A", "B"})
    => LET h == redis[last.cls]
           k == build_redis_key(last.cls, v)
       IN IF ~Has(h, k) THEN last.err = NoErr /\ last.ret = <<>>
          ELSE LET m == model_validate_json(PyText(db[h][k]))
               IN m.err = NoErr =>
                    (last.err = NoErr /\ last.ret # <<>> /\ last.ret[1].fields = m.fields)

\* C17: update() on a deleted instance fails with the deleted-instance error
\* before any change is applied: the instance's fields are as before the call
\* and no store write is issued.
C17_DeletedUpdateChangesNothing ==
  [][(last'.op = "update" /\ objs[last'.inst].deleted)
     => (/\ last'.err = ErrDeleted
         /\ objs'[last'.inst].fields = objs[last'.inst].fields
         /\ last'.cmds = <<>> /\ db' = db)]_vars

\* C20: the deleted state is per instance: delete() changes only the flag of
\* the instance it is called on; any other instance of the class, one with the
\* same identity value included, stays not deleted and its create() and
\* update() still succeed and write the key.
C20_DeleteStep ==
  last'.op = "delete" =>
    /\ Len(objs') = Len(objs)
    /\ \A j \in 1..Len(objs) : j # last'.inst => objs'[j] = objs[j]

C20_WriteStep ==
  (/\ last'.op \in {"create", "update"}
   /\ ~objs[last'.inst].deleted
   /\ last'.cls \in {"A", "B"})
  => LET o == objs'[last'.inst]
         h == redis[o.cls]
         k == redis_key(o).key
     IN /\ last'.err = NoErr /\ ~o.deleted
        /\ Len(last'.cmds) = 1 /\ last'.cmds[1].cmd = "SET" /\ last'.cmds[1].key = k
        /\ k \in DOMAIN db'[h]
        /\ (Has(h, k) /\ last'.cmds[1].kw.nx) \/ db'[h][k] = model_dump_json(o.fields)

C20_DeletedPerInstance == [][C20_DeleteStep /\ C20_WriteStep]_vars

C20_Witness ==
  /\ last.op = "create" /\ last.err = NoErr /\ ~last.arg[1].nx
  /\ db[last.cmds[1].h][last.cmds[1].key] = last.cmds[1].val
  /\ \E j \in 1..Len(objs) :
       /\ j # last.inst /\ objs[j].deleted
       /\ objs[j].cls = last.cls /\ objs[j].fields.id = objs[last.inst].fields.id

\* C15 as stated: update accepts the write options and forwards them to its
\* SET as create does; they are not applied as field changes and the SET
\* carries the caller's ex/px/nx.
C15_AsClaimed ==
  [][(/\ last'.op = "update" /\ last'.arg[2] # <<>>
      /\ ~objs[last'.inst].deleted)
     => (/\ last'.err = NoErr
         /\ Len(last'.cmds) = 1
         /\ "nx" \in DOMAIN last'.arg[2] => last'.cmds[1].kw.nx
         /\ "ex" \in DOMAIN last'.arg[2] => last'.cmds[1].kw.ex = last'.arg[2]["ex"].i)]_vars

\* C15: update takes no write options: every keyword given to update() is
\* assigned as a field, so an option keyword (ex, px, nx), which names no
\* field, makes the call fail with the unknown-field error before any store
\* command; the SET of a successful update carries the default options.
C15_UpdateTakesNoOptions ==
  [][last'.op = "update" =>
       /\ last'.arg[2] # <<>> =>
            (/\ last'.err = ErrNoField /\ last'.cmds = <<>>
             /\ db' = db /\ ttl' = ttl)
       /\ last'.cmds # <<>> =>
            (last'.cmds[1].cmd = "SET" /\ last'.cmds[1].kw = DefaultKw)]_vars

C15_Witness ==
  /\ last.op = "update" /\ last.arg[2] # <<>> /\ "ex" \in DOMAIN last.arg[2]
  /\ last.err = ErrNoField
  /\ ~objs[last.inst].deleted
  /\ Has(redis[last.cls], redis_key(objs[last.inst]).key)
  /\ objs[last.inst].fields.name = PyStr("y")
  /\ db[redis[last.cls]][redis_key(objs[last.inst]).key] =
       model_dump_json([id |-> PyInt(1), name |-> PyStr("x")])

\* C14: the deleted flag of an instance changes only from false to true, and
\* only at the completion of a delete() whose store deletion succeeded; no
\* operation resets it, and a delete() that fails (unbound class, identity
\* field configuration, transport error on the deletion) leaves it false.
C14_FlagStep ==
  /\ Len(objs') >= Len(objs)
  /\ \A i \in 1..Len(objs) :
       /\ objs[i].deleted => objs'[i].deleted
       /\ (~objs[i].deleted /\ objs'[i].deleted) =>
            (/\ last'.op = "delete" /\ last'.inst = i /\ last'.err = NoErr
             /\ Len(last'.cmds) = 1 /\ last'.cmds[1].cmd = "DELETE"
             /\ last'.cmds[1].key \notin DOMAIN db'[last'.cmds[1].h])
  /\ \A i \in (Len(objs) + 1)..Len(objs') : ~objs'[i].deleted
  /\ (last'.op = "delete" /\ last'.err # NoErr /\ ~objs[last'.inst].deleted) =>
       (/\ last'.err \in {ErrUnbound, ErrNoPk, ErrMultiPk, ErrTransport}
        /\ ~objs'[last'.inst].deleted)

C14_DeletedOnlyBySuccessfulDelete == [][C14_FlagStep]_vars

C14_Witness ==
  /\ last.op = "delete" /\ last.err = ErrTransport
  /\ ~objs[last.inst].deleted
  /\ last.cmds[1].key \notin DOMAIN db[last.cmds[1].h]
  /\ \E j \in 1..Len(objs) : objs[j].deleted

\* C18: every create, update, delete or get issues at most one store command,
\* exactly one when its guards and validation pass and none otherwise; when
\* the command fails with a transport error that error is raised with no
\* retry and no further command.
C18_AtMostOneCommand ==
  last.op \in {"create", "update", "delete", "get", "call"} =>
    /\ Len(last.cmds) <= 1
    /\ last.cmds = <<>> <=> last.err \in {ErrDeleted, ErrUnbound, ErrNoPk, ErrMultiPk}
    /\ last.err = ErrTransport => Len(last.cmds) = 1

C18_AsClaimed ==
  /\ C18_AtMostOneCommand
  /\ (last.op = "update" /\ Invalid(last.arg[1])) => last.cmds = <<>>

\* The instance is the only one that writes its key.
SoleWriter(i) ==
  \A j \in 1..Len(objs) :
    j # i => ~(objs[j].cls = objs[i].cls /\ objs[j].fields.id = objs[i].fields.id)

KeyHeld(i) == Has(redis[objs[i].cls], redis_key(objs[i]).key)

\* C19 as stated: for an instance that is the only writer of its key, under
\* every interleaving of its in-flight create/update/delete calls, whenever
\* the instance is deleted and none of its calls is in flight the store holds
\* no value under its key.
C19_AsClaimed ==
  \A i \in 1..Len(objs) :
    (/\ objs[i].cls \in {"A", "B"} /\ SoleWriter(i)
     /\ objs[i].deleted /\ InFlight(i) = {})
    => ~KeyHeld(i)

\* C19: the deleted guard is evaluated only before the store round trip and
\* nothing locks the instance.  For an instance that is the only writer of
\* its key: a call started on it once it is deleted sends no command; a
\* delete() during which no other call of the instance was in flight leaves
\* no value under the key; and once the instance is deleted with no call in
\* flight and the key absent, the key stays absent.
C19_Step ==
  /\ Len(pending') > Len(pending) => ~objs[pending'[Len(pending')].inst].deleted
  /\ \A p \in 1..Len(pending) :
       LET e == pending[p]
       IN (/\ e.op = "delete" /\ ~e.overlap /\ SoleWriter(e.inst)
           /\ ~objs[e.inst].deleted /\ objs'[e.inst].deleted)
          => (/\ InFlightIn(pending', e.inst) = {}
              /\ redis_key(objs[e.inst]).key \notin DOMAIN db'[redis[objs[e.inst].cls]])
  /\ \A i \in 1..Len(objs) :
       (/\ objs[i].cls \in {"A", "B"} /\ SoleWriter(i)
        /\ objs[i].deleted /\ InFlight(i) = {} /\ ~KeyHeld(i))
       => (/\ InFlightIn(pending', i) = {}
           /\ redis_key(objs[i]).key \notin DOMAIN db'[redis[objs[i].cls]])

C19_QuietDeleteLeavesNoValue == [][C19_Step]_vars

C19_Witness ==
  /\ last.op = "delete" /\ last.err = NoErr /\ pending = <<>>
  /\ Len(objs) = 2 /\ SoleWriter(last.inst)
  /\ objs[last.inst].deleted /\ ~KeyHeld(last.inst)
  /\ objs[last.inst].fields.name = PyStr("y")
  /\ \E j \in 1..Len(objs) : j # last.inst /\ KeyHeld(j)

====
